---- MODULE Spec2Model ----
(***************************************************************************)
(* Model of the web crawler of src/src/crawl.test.ts (lines 202-371):      *)
(* normalizeURL, getFirstParagraphFromHTML, getURLsFromHTML,               *)
(* getImagesFromHTML, getHTML and crawlPage.                               *)
(*                                                                         *)
(* Strings are modelled as sequences of tokens.  A URL string is a record  *)
(* of the components as they are written in the string; `new URL` turns it *)
(* into the parsed object (host lowercased, default port dropped, empty    *)
(* path replaced by "/"), and toString() writes the parsed object back.    *)
(***************************************************************************)
EXTENDS Integers, Sequences, FiniteSets, TLC

VARIABLES baseURL, pages, stack, status, log, arg, ret

vars == <<baseURL, pages, stack, status, log, arg, ret>>

crawlVars == <<baseURL, pages, stack, status, log>>

(***************************************************************************)
(* Bounds                                                                  *)
(***************************************************************************)
MaxAnchors == 2      \* anchors per fetched page in the crawl
MaxFetches == 2      \* fetches issued in one crawl
MaxNodes == 3        \* elements per document given to getFirstParagraphFromHTML
MaxElems == 3        \* elements per document given to getURLsFromHTML
MaxSlashes == 2      \* trailing slashes written at the end of a path

(***************************************************************************)
(* URL strings                                                             *)
(***************************************************************************)
Last(s) == s[Len(s)]

Front(s) == SubSeq(s, 1, Len(s) - 1)

\* A string that `new URL` rejects.
InvalidURL ==
    [valid |-> FALSE, scheme |-> "", host |-> "", port |-> "", path |-> <<>>,
     query |-> "", frag |-> ""]

MkURL(scheme, host, port, path, query, frag) ==
    [valid |-> TRUE, scheme |-> scheme, host |-> host, port |-> port,
     path |-> path, query |-> query, frag |-> frag]

\* The value a failed `new URL` stands for (a TypeError is thrown).
Failure ==
    [ok |-> FALSE, protocol |-> "", hostname |-> "", port |-> "",
     pathname |-> <<>>, search |-> "", hash |-> ""]

\* ASCII lowercasing of the host names of the model.
ToLower(h) ==
    CASE h = "H.CO" -> "h.co"
      [] OTHER -> h

\* The port the URL parser drops for a scheme.
DefaultPort(scheme) ==
    CASE scheme = "http" -> "80"
      [] scheme = "https" -> "443"
      [] OTHER -> ""

\* new URL(url): the parsed URL object, or Failure.
NewURL(url) ==
    IF ~url.valid
    THEN Failure
    ELSE [ok |-> TRUE,
          protocol |-> url.scheme,
          hostname |-> ToLower(url.host),
          port |-> IF url.port = DefaultPort(url.scheme) THEN "" ELSE url.port,
          pathname |-> IF url.path = <<>> THEN <<"/">> ELSE url.path,
          search |-> url.query,
          hash |-> url.frag]

\* urlObj.host: the hostname, followed by ":" and the port when there is one.
Host(urlObj) ==
    IF urlObj.port = ""
    THEN <<urlObj.hostname>>
    ELSE <<urlObj.hostname, ":", urlObj.port>>

\* urlObj.toString(): the serialisation of a parsed URL.
URLToString(urlObj) ==
    MkURL(urlObj.protocol, urlObj.hostname, urlObj.port, urlObj.pathname,
          urlObj.search, urlObj.hash)

\* The value normalizeURL stands for when `new URL` throws.
Thrown == <<"TypeError">>

NormalizeKeepsSlash(url) ==
    LET urlObj == NewURL(url)
    IN  IF ~urlObj.ok THEN Thrown ELSE Host(urlObj) \o urlObj.pathname

NormalizeKeepsQuery(url) ==
    LET urlObj == NewURL(url)
        fullPath == Host(urlObj) \o urlObj.pathname
        cut == IF Last(fullPath) = "/" THEN Front(fullPath) ELSE fullPath
    IN  IF ~urlObj.ok
        THEN Thrown
        ELSE cut \o (IF urlObj.search = "" THEN <<>> ELSE <<"?", urlObj.search>>)
                 \o (IF urlObj.hash = "" THEN <<>> ELSE <<"#", urlObj.hash>>)

\* normalizeURL(url)
normalizeURL(url) ==
    LET urlObj == NewURL(url)
        fullPath == Host(urlObj) \o urlObj.pathname
    IN  IF ~urlObj.ok
        THEN Thrown
        ELSE IF Last(fullPath) = "/" THEN Front(fullPath) ELSE fullPath

(***************************************************************************)
(* Resolution of a reference against a base: new URL(href, baseURL)        *)
(***************************************************************************)
\* A relative reference is a URL string without a scheme and without a host.
MkRef(path, query, frag) == MkURL("", "", "", path, query, frag)

\* The empty string.
EmptyString == MkRef(<<>>, "", "")

IsSpecial(protocol) == protocol \in {"http", "https"}

\* The base path up to and including its last "/".
RECURSIVE Dir(_)
Dir(path) ==
    IF path = <<>> \/ Last(path) = "/" THEN path ELSE Dir(Front(path))

\* new URL(ref, base): the parsed URL object, or Failure.
NewURL2(ref, base) ==
    LET b == NewURL(base)
    IN  IF ~b.ok \/ ~ref.valid
        THEN Failure
        ELSE IF ref.scheme # ""
        THEN NewURL(ref)
        ELSE IF ~IsSpecial(b.protocol)
        THEN Failure
        ELSE [ok |-> TRUE,
              protocol |-> b.protocol,
              hostname |-> b.hostname,
              port |-> b.port,
              pathname |-> IF ref.path = <<>> THEN b.pathname
                           ELSE IF Head(ref.path) = "/" THEN ref.path
                           ELSE Dir(b.pathname) \o ref.path,
              search |-> IF ref.path = <<>> /\ ref.query = ""
                         THEN b.search ELSE ref.query,
              hash |-> ref.frag]

(***************************************************************************)
(* HTML documents: the elements in document order.  parent is the index of *)
(* the enclosing element (0: directly under body); attr holds the href or  *)
(* src value when the attribute is written; text is the text content.      *)
(***************************************************************************)
Node(tag, parent, attr, text) ==
    [tag |-> tag, parent |-> parent, attr |-> attr, text |-> text]

\* <a href=ref> directly under body.
A(ref) == Node("a", 0, <<ref>>, <<>>)

\* The indices of the elements that enclose element i.
RECURSIVE Ancestors(_, _)
Ancestors(doc, i) ==
    IF doc[i].parent = 0
    THEN {}
    ELSE {doc[i].parent} \cup Ancestors(doc, doc[i].parent)

\* root.querySelectorAll(tag): the indices of the matching elements below
\* root, in document order (root 0: the document).
querySelectorAll(doc, root, tag) ==
    LET match(i) == doc[i].tag = tag /\ (root = 0 \/ root \in Ancestors(doc, i))
        RECURSIVE from(_)
        from(i) ==
            IF i > Len(doc) THEN <<>>
            ELSE IF match(i) THEN <<i>> \o from(i + 1)
            ELSE from(i + 1)
    IN  from(1)

\* root.querySelector(tag): the first match, or 0 for null.
querySelector(doc, root, tag) ==
    LET all == querySelectorAll(doc, root, tag)
    IN  IF all = <<>> THEN 0 ELSE Head(all)

\* String.prototype.trim
RECURSIVE TrimLeft(_)
TrimLeft(s) == IF s # <<>> /\ Head(s) = " " THEN TrimLeft(Tail(s)) ELSE s

RECURSIVE TrimRight(_)
TrimRight(s) == IF s # <<>> /\ Last(s) = " " THEN TrimRight(Front(s)) ELSE s

Trim(s) == TrimRight(TrimLeft(s))

\* (e?.textContent ?? "") with e the element at index i, 0 for null.
TextContent(doc, i) == IF i = 0 THEN <<>> ELSE doc[i].text

\* getH1FromHTML(html)
getH1FromHTML(doc) == Trim(TextContent(doc, querySelector(doc, 0, "h1")))

FirstParagraphMainOnly(doc) ==
    LET main == querySelector(doc, 0, "main")
        p == IF main # 0 THEN querySelector(doc, main, "p")
             ELSE querySelector(doc, 0, "p")
    IN  Trim(TextContent(doc, p))

\* getFirstParagraphFromHTML(html)
getFirstParagraphFromHTML(doc) ==
    LET main == querySelector(doc, 0, "main")
        inMain == IF main = 0 THEN 0 ELSE querySelector(doc, main, "p")
        p == IF inMain # 0 THEN inMain ELSE querySelector(doc, 0, "p")
    IN  Trim(TextContent(doc, p))

\* The forEach body of getURLsFromHTML / getImagesFromHTML: the list with
\* the resolved attribute of element i pushed, or unchanged.
PushResolved(urls, doc, i, base) ==
    LET attr == doc[i].attr
    IN  IF attr = <<>> \/ attr[1] = EmptyString
        THEN urls
        ELSE LET absolute == NewURL2(attr[1], base)
             IN  IF absolute.ok
                 THEN Append(urls, URLToString(absolute))
                 ELSE urls

RECURSIVE ForEach(_, _, _, _)
ForEach(urls, doc, elems, base) ==
    IF elems = <<>>
    THEN urls
    ELSE ForEach(PushResolved(urls, doc, Head(elems), base), doc, Tail(elems), base)

RECURSIVE ForEachStopAtInvalid(_, _, _, _)
ForEachStopAtInvalid(urls, doc, elems, base) ==
    IF elems = <<>>
    THEN urls
    ELSE LET attr == doc[Head(elems)].attr
         IN  IF attr # <<>> /\ attr[1] # EmptyString /\ ~NewURL2(attr[1], base).ok
             THEN urls
             ELSE ForEachStopAtInvalid(PushResolved(urls, doc, Head(elems), base),
                                       doc, Tail(elems), base)

GetURLsStopAtInvalid(doc, base) ==
    ForEachStopAtInvalid(<<>>, doc, querySelectorAll(doc, 0, "a"), base)

\* getURLsFromHTML(html, baseURL)
getURLsFromHTML(doc, base) ==
    ForEach(<<>>, doc, querySelectorAll(doc, 0, "a"), base)

\* getImagesFromHTML(html, baseURL)
getImagesFromHTML(doc, base) ==
    ForEach(<<>>, doc, querySelectorAll(doc, 0, "img"), base)

\* The html string given to an extractor: the document it parses to, or a
\* string on which `new JSDOM(html)` throws (every extractor catches that and
\* returns its empty value).
HTML(throws, doc) == [throws |-> throws, doc |-> doc]

\* <img src=ref> directly under body.
Img(ref) == Node("img", 0, <<ref>>, <<>>)

ExtractNormalizesURL(html, pageURL) ==
    [url |-> normalizeURL(pageURL),
     h1 |-> IF html.throws THEN <<>> ELSE getH1FromHTML(html.doc),
     first_paragraph |->
         IF html.throws THEN <<>> ELSE getFirstParagraphFromHTML(html.doc),
     outgoing_links |->
         IF html.throws THEN <<>> ELSE getURLsFromHTML(html.doc, pageURL),
     image_urls |->
         IF html.throws THEN <<>> ELSE getImagesFromHTML(html.doc, pageURL)]

\* extractPageData(html, pageURL)
extractPageData(html, pageURL) ==
    [url |-> pageURL,
     h1 |-> IF html.throws THEN <<>> ELSE getH1FromHTML(html.doc),
     first_paragraph |->
         IF html.throws THEN <<>> ELSE getFirstParagraphFromHTML(html.doc),
     outgoing_links |->
         IF html.throws THEN <<>> ELSE getURLsFromHTML(html.doc, pageURL),
     image_urls |->
         IF html.throws THEN <<>> ELSE getImagesFromHTML(html.doc, pageURL)]

RECURSIVE SeqsUpTo(_, _)
SeqsUpTo(S, n) ==
    IF n = 0
    THEN {<<>>}
    ELSE SeqsUpTo(S, n - 1)
         \cup {Append(q, x) : q \in {r \in SeqsUpTo(S, n - 1) : Len(r) = n - 1},
                              x \in S}

(***************************************************************************)
(* The pages object: a plain JavaScript object used as a map.  Its own     *)
(* properties are a function from keys to counts; the property "__proto__" *)
(* is inherited from Object.prototype: reading it gives the prototype      *)
(* object, and assigning a number to it is ignored.                        *)
(***************************************************************************)
\* pages = {}
EmptyObject == [k \in {} |-> 0]

ProtoKey == <<"__proto__">>

\* pages[key] > 0
IsPositive(obj, key) ==
    /\ key # ProtoKey
    /\ key \in DOMAIN obj
    /\ obj[key] > 0

\* pages[key] = value
Assign(obj, key, value) ==
    IF key = ProtoKey
    THEN obj
    ELSE [k \in DOMAIN obj \cup {key} |-> IF k = key THEN value ELSE obj[k]]

(***************************************************************************)
(* getHTML                                                                 *)
(***************************************************************************)
\* What fetch gives: a rejection, or a response with a status, a
\* content-type header (<<>> when the header is missing) and a body.
Response(rejected, code, contentType, body) ==
    [rejected |-> rejected, status |-> code, contentType |-> contentType,
     body |-> body]

\* contentType.includes("text/html")
IncludesTextHTML(contentType) ==
    contentType \in {"text/html", "text/html; charset=utf-8"}

\* The outcome of getHTML(url) for what fetch gave.
Outcome(res) ==
    IF res.rejected THEN "networkError"
    ELSE IF res.status > 399 THEN "httpError"
    ELSE IF res.contentType = <<>> \/ ~IncludesTextHTML(res.contentType[1])
    THEN "notHTML"
    ELSE "html"

GetHTMLChecksTypeFirst(res) ==
    LET notHTML == res.contentType = <<>> \/ ~IncludesTextHTML(res.contentType[1])
        out == IF res.rejected THEN "networkError"
               ELSE IF notHTML THEN "notHTML"
               ELSE IF res.status > 399 THEN "httpError"
               ELSE "html"
    IN  [threw |-> out = "networkError",
         result |-> IF out = "html" THEN <<res.body>> ELSE <<>>,
         read |-> out = "html",
         logged |-> IF out \in {"httpError", "notHTML"} THEN <<out>> ELSE <<>>]

\* getHTML(url): threw when the Error is thrown, result <<>> when undefined
\* is returned and <<body>> when the body text is returned, read when
\* res.text() is called, logged the message the early return prints.
getHTML(res) ==
    [threw |-> Outcome(res) = "networkError",
     result |-> IF Outcome(res) = "html" THEN <<res.body>> ELSE <<>>,
     read |-> Outcome(res) = "html",
     logged |-> IF Outcome(res) \in {"httpError", "notHTML"}
                THEN <<Outcome(res)>> ELSE <<>>]

(***************************************************************************)
(* crawlPage                                                               *)
(***************************************************************************)
\* The frame of a crawlPage call that is suspended: at `await getHTML`
\* (pc "getHTML") or in the for loop over nextURLs (pc "loop", i the index
\* of the next URL to visit).
Frame(url, pc, nextURLs, i) ==
    [url |-> url, pc |-> pc, nextURLs |-> nextURLs, i |-> i]

\* An entry of the history of the crawl: a crawlPage call and the branch it
\* took, or the response to a fetch with the body that was given.
Event(ev, url, what, html, depth) ==
    [ev |-> ev, url |-> url, what |-> what, html |-> html, depth |-> depth]

\* The fetches issued so far.
Fetches(history) == SelectSeq(history, LAMBDA e : e.ev = "fetch")

\* The state the crawl is in when the frames left are `rest`.
StatusOf(rest) == IF rest = <<>> THEN "done" ELSE "running"

\* new URL(currentURL) or new URL(baseURL) throws: the promise of this call
\* and of every caller awaiting it is rejected.
Throws(url, rest) ==
    /\ status' = "error"
    /\ stack' = <<>>
    /\ pages' = pages
    /\ log' = Append(log, Event("call", url, "throw", <<>>, Len(rest) + 1))

\* The hostnames differ: return pages.
OutOfScope(url, rest) ==
    /\ pages' = pages
    /\ stack' = rest
    /\ status' = StatusOf(rest)
    /\ log' = Append(log, Event("call", url, "outOfScope", <<>>, Len(rest) + 1))

\* pages[normalizedURL] > 0: pages[normalizedURL]++ and return pages.
Revisit(url, rest) ==
    /\ pages' = Assign(pages, normalizeURL(url), pages[normalizeURL(url)] + 1)
    /\ stack' = rest
    /\ status' = StatusOf(rest)
    /\ log' = Append(log, Event("call", url, "revisit", <<>>, Len(rest) + 1))

\* pages[normalizedURL] = 1, then getHTML(currentURL) issues the fetch and
\* the call is suspended at the await.
FirstVisit(url, rest) ==
    /\ Len(Fetches(log)) < MaxFetches
    /\ pages' = Assign(pages, normalizeURL(url), 1)
    /\ stack' = Append(rest, Frame(url, "getHTML", <<>>, 1))
    /\ status' = "running"
    /\ log' = log \o <<Event("call", url, "firstVisit", <<>>, Len(rest) + 1),
                       Event("fetch", url, "", <<>>, Len(rest) + 1)>>

CrawlPageNoScopeCheck(url, rest) ==
    IF ~NewURL(url).ok \/ ~NewURL(baseURL).ok
    THEN Throws(url, rest)
    ELSE IF IsPositive(pages, normalizeURL(url))
    THEN Revisit(url, rest)
    ELSE FirstVisit(url, rest)

CrawlPageNoVisitedCheck(url, rest) ==
    IF ~NewURL(url).ok \/ ~NewURL(baseURL).ok
    THEN Throws(url, rest)
    ELSE IF NewURL(url).hostname # NewURL(baseURL).hostname
    THEN OutOfScope(url, rest)
    ELSE FirstVisit(url, rest)

\* crawlPage(baseURL, url, pages) up to its first await or return, called
\* while the frames `rest` are suspended.
CrawlPage(url, rest) ==
    IF ~NewURL(url).ok \/ ~NewURL(baseURL).ok
    THEN Throws(url, rest)
    ELSE IF NewURL(url).hostname # NewURL(baseURL).hostname
    THEN OutOfScope(url, rest)
    ELSE IF IsPositive(pages, normalizeURL(url))
    THEN Revisit(url, rest)
    ELSE FirstVisit(url, rest)

\* Base URLs given to crawlPage: "https://H.CO", "http://__proto__" and a
\* string that does not parse.
CrawlBases ==
    {MkURL("https", "H.CO", "", <<>>, "", ""),
     MkURL("http", "__proto__", "", <<>>, "", ""),
     InvalidURL}

\* href values of the fetched pages: "?x", "http://h.co/p/",
\* "https://other.com/p" and a string that does not parse.
CrawlRefs ==
    {MkRef(<<>>, "x", ""),
     MkURL("http", "h.co", "", <<"/", "p", "/">>, "", ""),
     MkURL("https", "other.com", "", <<"/", "p">>, "", ""),
     InvalidURL}

\* The bodies of the fetched pages: up to MaxAnchors anchors.
CrawlDocs == SeqsUpTo({A(r) : r \in CrawlRefs}, MaxAnchors)

\* What fetch may give for a URL.
Responses ==
    {Response(TRUE, 0, <<>>, <<>>)}
    \cup {Response(FALSE, code, ct, <<>>) :
            code \in {200, 399, 400, 404},
            ct \in {<<>>, <<"application/json">>, <<"text/html">>}}
    \cup {Response(FALSE, 200, <<"text/html; charset=utf-8">>, doc) :
            doc \in CrawlDocs}

InitCrawl ==
    /\ baseURL \in CrawlBases
    /\ pages = EmptyObject
    /\ stack = <<>>
    /\ status = "idle"
    /\ log = <<>>
    /\ arg = <<>>
    /\ ret = <<>>

\* crawlPage(baseURL): currentURL defaults to baseURL and pages to {}.
Start ==
    /\ status = "idle"
    /\ CrawlPage(baseURL, <<>>)
    /\ UNCHANGED <<baseURL, arg, ret>>

SettleUncaught(res) ==
    LET got == getHTML(res)
        top == Last(stack)
        html == IF got.result = <<>> THEN <<>> ELSE got.result[1]
    IN  /\ log' = Append(log, Event("response", top.url, Outcome(res), html,
                                    Len(stack)))
        /\ IF got.threw
           THEN /\ stack' = <<>>
                /\ status' = "error"
           ELSE IF got.result = <<>> \/ got.result[1] = <<>>
           THEN /\ stack' = Front(stack)
                /\ status' = StatusOf(Front(stack))
           ELSE /\ stack' = Append(Front(stack),
                      Frame(top.url, "loop",
                            getURLsFromHTML(got.result[1], baseURL), 1))
                /\ status' = "running"

SettleResolvesAgainstPage(res) ==
    LET got == getHTML(res)
        top == Last(stack)
        html == IF got.result = <<>> THEN <<>> ELSE got.result[1]
    IN  /\ log' = Append(log, Event("response", top.url, Outcome(res), html,
                                    Len(stack)))
        /\ IF got.threw \/ got.result = <<>> \/ got.result[1] = <<>>
           THEN /\ stack' = Front(stack)
                /\ status' = StatusOf(Front(stack))
           ELSE /\ stack' = Append(Front(stack),
                      Frame(top.url, "loop",
                            getURLsFromHTML(got.result[1], top.url), 1))
                /\ status' = "running"

\* crawlPage after `await getHTML(currentURL)`, for what fetch gave: return
\* pages when getHTML threw or returned nothing (undefined, or an empty
\* body), else extract the links of the body and enter the for loop.
Settle(res) ==
    LET got == getHTML(res)
        top == Last(stack)
        html == IF got.result = <<>> THEN <<>> ELSE got.result[1]
    IN  /\ log' = Append(log, Event("response", top.url, Outcome(res), html,
                                    Len(stack)))
        /\ IF got.threw \/ got.result = <<>> \/ got.result[1] = <<>>
           THEN /\ stack' = Front(stack)
                /\ status' = StatusOf(Front(stack))
           ELSE /\ stack' = Append(Front(stack),
                      Frame(top.url, "loop",
                            getURLsFromHTML(got.result[1], baseURL), 1))
                /\ status' = "running"

\* The fetch of the innermost call settles.
GetHTMLResponds ==
    /\ status = "running"
    /\ Last(stack).pc = "getHTML"
    /\ \E res \in Responses : Settle(res)
    /\ UNCHANGED <<baseURL, pages, arg, ret>>

VisitNextReversed ==
    /\ status = "running"
    /\ Last(stack).pc = "loop"
    /\ Last(stack).i <= Len(Last(stack).nextURLs)
    /\ LET top == Last(stack)
       IN  CrawlPage(top.nextURLs[Len(top.nextURLs) - top.i + 1],
                     Append(Front(stack),
                            Frame(top.url, "loop", top.nextURLs, top.i + 1)))
    /\ UNCHANGED <<baseURL, arg, ret>>

\* One iteration of the for loop: pages = await crawlPage(baseURL, nextURL, pages)
VisitNext ==
    /\ status = "running"
    /\ Last(stack).pc = "loop"
    /\ Last(stack).i <= Len(Last(stack).nextURLs)
    /\ LET top == Last(stack)
       IN  CrawlPage(top.nextURLs[top.i],
                     Append(Front(stack),
                            Frame(top.url, "loop", top.nextURLs, top.i + 1)))
    /\ UNCHANGED <<baseURL, arg, ret>>

\* The for loop is over: return pages.
Return ==
    /\ status = "running"
    /\ Last(stack).pc = "loop"
    /\ Last(stack).i > Len(Last(stack).nextURLs)
    /\ stack' = Front(stack)
    /\ status' = StatusOf(Front(stack))
    /\ log' = Append(log, Event("return", Last(stack).url, "", <<>>, Len(stack)))
    /\ UNCHANGED <<baseURL, pages, arg, ret>>

Next ==
    \/ Start
    \/ GetHTMLResponds
    \/ VisitNext
    \/ Return

Spec == InitCrawl /\ [][Next]_vars

(***************************************************************************)
(* Inputs of the pure functions                                            *)
(***************************************************************************)
\* path followed by k "/" tokens.
RECURSIVE WithSlashes(_, _)
WithSlashes(path, k) ==
    IF k = 0 THEN path ELSE Append(WithSlashes(path, k - 1), "/")

NormPaths ==
    {WithSlashes(seg, k) : seg \in {<<>>, <<"/", "p">>, <<"/", "P">>},
                           k \in 0..MaxSlashes}

NormURLs ==
    {MkURL(s, h, pt, pa, q, f) :
        s \in {"http", "https"}, h \in {"h.co", "H.CO"},
        pt \in {"", "80", "443", "8080"}, pa \in NormPaths,
        q \in {"", "x"}, f \in {"", "f"}}

URLFields == {"scheme", "host", "port", "path", "query", "frag"}

\* The components in which two URL strings differ.
Diff(u, v) == {c \in URLFields : u[c] # v[c]}

\* The URL strings that differ from u in at most one component.
Variants(u) ==
    {MkURL(u.scheme, u.host, u.port, u.path, q, f) :
        q \in {"", "x"}, f \in {"", "f"}}
    \cup {MkURL(s, u.host, u.port, u.path, u.query, u.frag) :
        s \in {"http", "https"}}
    \cup {MkURL(u.scheme, h, u.port, u.path, u.query, u.frag) :
        h \in {"h.co", "H.CO"}}
    \cup {MkURL(u.scheme, u.host, pt, u.path, u.query, u.frag) :
        pt \in {"", "80", "443", "8080"}}
    \cup {MkURL(u.scheme, u.host, u.port, pa, u.query, u.frag) :
        pa \in NormPaths}

\* Pairs of URL strings that differ in at most one component (query and
\* fragment count as one), and the unparseable string.
NormPairs ==
    UNION {{<<u, v>> : v \in Variants(u)} : u \in NormURLs}
    \cup {<<InvalidURL, InvalidURL>>}

\* The state of the crawl while a pure function is exercised.
NoCrawl ==
    /\ baseURL = InvalidURL
    /\ pages = EmptyObject
    /\ stack = <<>>
    /\ status = "idle"
    /\ log = <<>>

InitNormalize ==
    /\ NoCrawl
    /\ arg \in NormPairs
    /\ ret = <<>>

\* normalizeURL is applied to both URL strings of the pair.
NormalizeCall ==
    /\ ret = <<>>
    /\ ret' = <<normalizeURL(arg[1]), normalizeURL(arg[2])>>
    /\ UNCHANGED <<crawlVars, arg>>

NextNormalize == NormalizeCall

SpecNormalize == InitNormalize /\ [][NextNormalize]_vars

\* Text contents of the paragraphs given to getFirstParagraphFromHTML.
ParaTexts == {<<"x">>, <<" ", "y", " ", "y", " ">>, <<" ">>}

\* The elements that may enclose the element that follows doc: the last
\* element and the elements that enclose it, when they are main or div.
OpenContainers(doc) ==
    IF doc = <<>>
    THEN {}
    ELSE {j \in {Len(doc)} \cup Ancestors(doc, Len(doc)) :
             doc[j].tag \in {"main", "div"}}

\* The documents obtained by writing one more element after doc.
Extend(doc) ==
    {Append(doc, Node(tag, par, <<>>, <<>>)) :
        tag \in {"main", "div"}, par \in {0} \cup OpenContainers(doc)}
    \cup {Append(doc, Node("p", par, <<>>, text)) :
        par \in {0} \cup OpenContainers(doc), text \in ParaTexts}

RECURSIVE DocsOfLen(_)
DocsOfLen(n) ==
    IF n = 0 THEN {<<>>} ELSE UNION {Extend(doc) : doc \in DocsOfLen(n - 1)}

\* Documents of p, main and div elements, nested in any way.
ParaDocs == UNION {DocsOfLen(n) : n \in 0..MaxNodes}

InitParagraph ==
    /\ NoCrawl
    /\ arg \in ParaDocs
    /\ ret = <<>>

\* getFirstParagraphFromHTML is applied to the document.
FirstParagraphCall ==
    /\ ret = <<>>
    /\ ret' = <<getFirstParagraphFromHTML(arg)>>
    /\ UNCHANGED <<crawlVars, arg>>

NextParagraph == FirstParagraphCall

SpecParagraph == InitParagraph /\ [][NextParagraph]_vars

\* href and src values given to getURLsFromHTML and getImagesFromHTML: "",
\* "/p", "q?x", "http://H.CO:80#f", a string that does not parse, "mailto:a".
LinkRefs ==
    {EmptyString,
     MkRef(<<"/", "p">>, "", ""),
     MkRef(<<"q">>, "x", ""),
     MkURL("http", "H.CO", "80", <<>>, "", "f"),
     InvalidURL,
     MkURL("mailto", "", "", <<"a">>, "", "")}

\* a and img elements with and without their attribute, and a div.
LinkNodes ==
    {Node(tag, 0, attr, <<>>) :
        tag \in {"a", "img"}, attr \in {<<>>} \cup {<<r>> : r \in LinkRefs}}
    \cup {Node("div", 0, <<>>, <<>>)}

\* Base URLs given to the extractors: "https://h.co/p/d" and a string that
\* does not parse.
LinkBases ==
    {MkURL("https", "h.co", "", <<"/", "p", "/", "d">>, "", ""), InvalidURL}

InitLinks ==
    /\ NoCrawl
    /\ arg \in {<<doc, base>> : doc \in SeqsUpTo(LinkNodes, MaxElems),
                                base \in LinkBases}
    /\ ret = <<>>

\* getURLsFromHTML and getImagesFromHTML are applied to the document.
LinksCall ==
    /\ ret = <<>>
    /\ ret' = <<getURLsFromHTML(arg[1], arg[2]), getImagesFromHTML(arg[1], arg[2])>>
    /\ UNCHANGED <<crawlVars, arg>>

NextLinks == LinksCall

SpecLinks == InitLinks /\ [][NextLinks]_vars

\* The elements of the pages given to extractPageData: h1 with and without
\* surrounding spaces, p, a with a relative and with an absolute href, img
\* with and without src, and a div.
ExtractNodes ==
    {Node("h1", 0, <<>>, <<"t">>),
     Node("h1", 0, <<>>, <<" ", "u", " ", "u", " ">>),
     Node("p", 0, <<>>, <<" ", "x">>),
     A(MkRef(<<"/", "p">>, "", "")),
     A(MkURL("http", "h.co", "", <<"/", "q">>, "", "")),
     Img(MkRef(<<"/", "i">>, "", "")),
     Node("img", 0, <<>>, <<>>),
     Node("div", 0, <<>>, <<>>)}

\* The html strings given to extractPageData.
ExtractHTMLs ==
    {HTML(FALSE, doc) : doc \in SeqsUpTo(ExtractNodes, MaxElems)}
    \cup {HTML(TRUE, <<>>)}

\* The page URLs given to extractPageData: "https://H.CO/p/",
\* "https://h.co/p" and a string that does not parse.
ExtractPageURLs ==
    {MkURL("https", "H.CO", "", <<"/", "p", "/">>, "", ""),
     MkURL("https", "h.co", "", <<"/", "p">>, "", ""),
     InvalidURL}

InitExtract ==
    /\ NoCrawl
    /\ arg \in ExtractHTMLs \X ExtractPageURLs
    /\ ret = <<>>

\* extractPageData is applied to the page.
ExtractCall ==
    /\ ret = <<>>
    /\ ret' = <<extractPageData(arg[1], arg[2])>>
    /\ UNCHANGED <<crawlVars, arg>>

NextExtract == ExtractCall

SpecExtract == InitExtract /\ [][NextExtract]_vars

\* What fetch gives to getHTML: a rejection, or a response with a status on
\* either side of 400, a content-type header that is missing, empty, of
\* another type or of an HTML type, and a body.
FetchResults ==
    {Response(TRUE, 0, <<>>, <<>>)}
    \cup {Response(FALSE, code, ct, body) :
            code \in {200, 301, 399, 400, 404, 500},
            ct \in {<<>>, <<"">>, <<"application/json">>, <<"text/html">>,
                    <<"text/html; charset=utf-8">>},
            body \in {<<>>, <<A(InvalidURL)>>,
                      <<Node("h1", 0, <<>>, <<"t">>)>>}}

InitGetHTML ==
    /\ NoCrawl
    /\ arg \in FetchResults
    /\ ret = <<>>

\* getHTML runs on what fetch gave.
GetHTMLCall ==
    /\ ret = <<>>
    /\ ret' = <<getHTML(arg)>>
    /\ UNCHANGED <<crawlVars, arg>>

NextGetHTML == GetHTMLCall

SpecGetHTML == InitGetHTML /\ [][NextGetHTML]_vars

(***************************************************************************)
(* Claims about normalizeURL (checked under SpecNormalize)                 *)
(***************************************************************************)
\* host + pathname of a parsed URL string, as tokens.
HostAndPath(u) == Host(NewURL(u)) \o NewURL(u).pathname

EndsInSlash(s) == s # <<>> /\ Last(s) = "/"

\* key is s with at most one trailing slash removed, and with one removed
\* whenever s ends in a slash.
StripsOneSlash(s, key) ==
    IF EndsInSlash(s) THEN s = Append(key, "/") ELSE s = key

\* The key is host + pathname: scheme dropped, host lowercased, at most one
\* trailing slash removed.
KeyShape(u, key) ==
    /\ StripsOneSlash(HostAndPath(u), key)
    /\ key[1] = ToLower(u.host)
    /\ \A i \in 1..Len(key) : key[i] \notin {"http", "https", u.scheme}

\* v is u with one slash appended to a path that does not end in a slash.
AddsTrailingSlash(u, v) ==
    /\ Diff(u, v) = {"path"}
    /\ ~EndsInSlash(u.path)
    /\ v.path = Append(u.path, "/")

\* The URL string spells out a port that is the default of http or https.
WritesDefaultPort(u) == u.port \in {"80", "443"}

\* C7 as stated: two URLs that differ only by scheme, by the case of the
\* host or by a single trailing slash get the same key, whatever port they
\* spell out.
C7_AsStated ==
    Len(ret) = 2 /\ arg[1].valid =>
        /\ KeyShape(arg[1], ret[1])
        /\ Diff(arg[1], arg[2]) \in {{"scheme"}, {"host"}} => ret[1] = ret[2]
        /\ AddsTrailingSlash(arg[1], arg[2]) => ret[1] = ret[2]

\* C7 (amended): normalizeURL returns host + pathname with the scheme
\* dropped, the host lowercased and at most one trailing slash removed; two
\* URLs that differ only by the case of the host or by a single trailing
\* slash get the same key, and so do two URLs that differ only by scheme
\* unless they spell out port 80 or 443; a URL ending in repeated slashes
\* loses only one of them.
C7_NormalizeKey ==
    Len(ret) = 2 /\ arg[1].valid =>
        /\ KeyShape(arg[1], ret[1])
        /\ Diff(arg[1], arg[2]) = {"host"} => ret[1] = ret[2]
        /\ Diff(arg[1], arg[2]) = {"scheme"} /\ ~WritesDefaultPort(arg[1])
              => ret[1] = ret[2]
        /\ AddsTrailingSlash(arg[1], arg[2]) => ret[1] = ret[2]
        /\ EndsInSlash(arg[1].path) /\ EndsInSlash(Front(arg[1].path))
              => EndsInSlash(ret[1])

\* http://H.CO:8080/p and http://H.CO:8080/p/ have both been normalized to
\* h.co:8080/p.
C7_Witness ==
    /\ Len(ret) = 2
    /\ arg[1] = MkURL("http", "H.CO", "8080", <<"/", "p">>, "", "")
    /\ AddsTrailingSlash(arg[1], arg[2])
    /\ ret[1] = <<"h.co", ":", "8080", "/", "p">>
    /\ ret[2] = ret[1]

\* C8 as stated: two URLs with the same host and path that differ only in
\* query string or fragment normalize to different keys.
C8_AsStated ==
    Len(ret) = 2 /\ arg[1].valid
      /\ Diff(arg[1], arg[2]) # {} /\ Diff(arg[1], arg[2]) \subseteq {"query", "frag"}
        => ret[1] # ret[2]

\* C8 (amended): the normalized key holds neither the query string nor the
\* fragment of the input URL: two URLs with the same host and path that
\* differ only in query string or fragment normalize to the same key.
C8_QueryAndFragmentDropped ==
    Len(ret) = 2 /\ arg[1].valid =>
        /\ \A i \in 1..Len(ret[1]) :
              ret[1][i] \notin {"?", "#"} \cup ({arg[1].query, arg[1].frag} \ {""})
        /\ Diff(arg[1], arg[2]) \subseteq {"query", "frag"} => ret[1] = ret[2]

\* https://h.co/p?x#f and https://h.co/p have both been normalized to h.co/p.
C8_Witness ==
    /\ Len(ret) = 2
    /\ arg[1] = MkURL("https", "h.co", "", <<"/", "p">>, "x", "f")
    /\ arg[2] = MkURL("https", "h.co", "", <<"/", "p">>, "", "")
    /\ ret[1] = <<"h.co", "/", "p">>
    /\ ret[2] = ret[1]

(***************************************************************************)
(* Claims about getFirstParagraphFromHTML (checked under SpecParagraph)    *)
(***************************************************************************)
Min(S) == CHOOSE i \in S : \A j \in S : i <= j

Elems(doc, tag) == {i \in 1..Len(doc) : doc[i].tag = tag}

\* The p elements inside the first main element of the document.
ParasInMain(doc) ==
    IF Elems(doc, "main") = {}
    THEN {}
    ELSE {i \in Elems(doc, "p") : Min(Elems(doc, "main")) \in Ancestors(doc, i)}

\* s is t without its leading and trailing spaces.
IsTrimOf(s, t) ==
    /\ s = <<>> \/ (Head(s) # " " /\ Last(s) # " ")
    /\ \E i, j \in 0..Len(t) :
          /\ i + Len(s) + j = Len(t)
          /\ \A k \in 1..Len(t) :
                IF k <= i \/ k > i + Len(s) THEN t[k] = " " ELSE t[k] = s[k - i]

\* C9: getFirstParagraphFromHTML returns the trimmed text of the first p
\* inside main (the first main element of the document) if a main exists
\* and contains at least one p; otherwise (no main, or a main with no p in
\* it) the trimmed text of the first p anywhere in the document; and the
\* empty string when the document has no p at all.
C9_FirstParagraph ==
    Len(ret) = 1 =>
        IF ParasInMain(arg) # {}
        THEN IsTrimOf(ret[1], arg[Min(ParasInMain(arg))].text)
        ELSE IF Elems(arg, "p") # {}
        THEN IsTrimOf(ret[1], arg[Min(Elems(arg, "p"))].text)
        ELSE ret[1] = <<>>

\* A paragraph outside and before main and a paragraph inside main: the
\* text of the latter has been returned, trimmed.
C9_Witness ==
    /\ Len(ret) = 1
    /\ Len(arg) = 3
    /\ arg[1] = Node("p", 0, <<>>, <<"x">>)
    /\ arg[2].tag = "main"
    /\ arg[3] = Node("p", 2, <<>>, <<" ", "y", " ", "y", " ">>)
    /\ ret[1] = <<"y", " ", "y">>

\* A main with no p in it and a paragraph after it: the text of the
\* paragraph outside main has been returned.
C9_WitnessFallback ==
    /\ Len(ret) = 1
    /\ Len(arg) = 2
    /\ arg[1].tag = "main"
    /\ arg[2] = Node("p", 0, <<>>, <<"x">>)
    /\ ret[1] = <<"x">>

(***************************************************************************)
(* Claims about getURLsFromHTML and getImagesFromHTML (under SpecLinks)    *)
(***************************************************************************)
\* The standard absolute resolution of a reference against a base.
Resolves(ref, base) == NewURL2(ref, base).ok

Resolution(ref, base) == URLToString(NewURL2(ref, base))

\* out holds, in document order, the resolution of the attribute of the
\* elements of doc whose index is in S, and nothing else.
ListsExactly(out, doc, S, base) ==
    /\ Len(out) = Cardinality(S)
    /\ \A i \in S :
          out[Cardinality({j \in S : j <= i})] = Resolution(doc[i].attr[1], base)

\* The elements with the tag that have the attribute and whose attribute
\* resolves against base.
WithResolvingAttr(doc, tag, base) ==
    {i \in Elems(doc, tag) : doc[i].attr # <<>> /\ Resolves(doc[i].attr[1], base)}

\* C10 as stated: the result lists the resolution of the href of every a
\* element that has an href attribute and whose href resolves.
C10_AsStated ==
    Len(ret) = 2 =>
        ListsExactly(ret[1], arg[1], WithResolvingAttr(arg[1], "a", arg[2]), arg[2])

\* C10 (amended): getURLsFromHTML (and getImagesFromHTML for img/src)
\* returns, in document order, exactly the standard absolute resolution
\* against base of the href of every a element that has a non-empty href
\* attribute and whose href resolves: anchors lacking the attribute or with
\* an empty one are excluded, an unresolvable href is skipped alone, and the
\* anchors after a skipped one are still extracted in their relative order.
C10_ResolvedLinks ==
    Len(ret) = 2 =>
        /\ ListsExactly(ret[1], arg[1],
              {i \in WithResolvingAttr(arg[1], "a", arg[2]) :
                  arg[1][i].attr[1] # EmptyString}, arg[2])
        /\ ListsExactly(ret[2], arg[1],
              {i \in WithResolvingAttr(arg[1], "img", arg[2]) :
                  arg[1][i].attr[1] # EmptyString}, arg[2])

\* <a href="q?x">, an a with an unparseable href, <a href="http://H.CO:80#f">
\* against https://h.co/p/d: the first and the third have been extracted.
C10_Witness ==
    /\ Len(ret) = 2
    /\ arg[2] = MkURL("https", "h.co", "", <<"/", "p", "/", "d">>, "", "")
    /\ arg[1] = <<A(MkRef(<<"q">>, "x", "")), A(InvalidURL),
                  A(MkURL("http", "H.CO", "80", <<>>, "", "f"))>>
    /\ ret[1] = <<MkURL("https", "h.co", "", <<"/", "p", "/", "q">>, "x", ""),
                  MkURL("http", "h.co", "", <<"/">>, "", "f")>>

(***************************************************************************)
(* Claims about crawlPage (checked under Spec)                             *)
(***************************************************************************)
\* The number of entries of a history that satisfy Test.
Count(history, Test(_)) == Len(SelectSeq(history, Test))

\* The URL is on the hostname of the base URL.
InScope(url) ==
    /\ NewURL(url).ok
    /\ NewURL(url).hostname = NewURL(baseURL).hostname

\* The crawlPage calls made so far with an in-scope URL.
IsVisit(e) == e.ev = "call" /\ InScope(e.url)

\* The keys of the in-scope URLs met so far.
KeysMet == {normalizeURL(log[i].url) : i \in {j \in 1..Len(log) : IsVisit(log[j])}}

\* The count stored for a key: 0 when the map does not hold the key.
CountOf(key) == IF key \in DOMAIN pages THEN pages[key] ELSE 0

\* C1: the Fetcher is called at most once per normalized-URL key.
C1_FetchedOncePerKey ==
    \A key \in KeysMet :
        Count(log, LAMBDA e : e.ev = "fetch" /\ normalizeURL(e.url) = key) <= 1

\* C2: at every point of the crawl the count stored for a key equals the
\* number of visit calls made so far with an in-scope URL that normalizes
\* to the key.
C2_CountIsNumberOfVisits ==
    \A key \in KeysMet \cup DOMAIN pages :
        CountOf(key) = Count(log, LAMBDA e : IsVisit(e) /\ normalizeURL(e.url) = key)

\* C3: a crawlPage call on a URL whose hostname differs from the base URL's
\* returns the map unchanged and issues no fetch: every such call has taken
\* the out-of-scope return, no such URL has been fetched, every key of the
\* map starts with the base hostname, and the count stored under a key is
\* the number of in-scope calls for it (no out-of-scope call has added to
\* the map).
C3_ScopeEnforced ==
    NewURL(baseURL).ok =>
        /\ \A i \in 1..Len(log) :
              log[i].ev \in {"call", "fetch"} /\ ~InScope(log[i].url)
                => log[i].what = "outOfScope"
        /\ \A key \in DOMAIN pages :
              /\ key[1] = NewURL(baseURL).hostname
              /\ pages[key] = Count(log, LAMBDA e : IsVisit(e) /\ normalizeURL(e.url) = key)

\* The crawl of https://H.CO has returned after a call on
\* https://other.com/p, and the map holds the key h.co only.
C3_Witness ==
    /\ status = "done"
    /\ baseURL = MkURL("https", "H.CO", "", <<>>, "", "")
    /\ \E i \in 1..Len(log) :
          /\ log[i].ev = "call"
          /\ log[i].url = MkURL("https", "other.com", "", <<"/", "p">>, "", "")
          /\ log[i].what = "outOfScope"
    /\ DOMAIN pages = {<<"h.co">>}

\* C4: when the fetch of a first-visited URL ends in a non-success outcome,
\* the visit returns with the key's count left at 1 and no link of the page
\* visited, and the crawl goes on in the caller.
C4_FailedFetchEndsThatNodeOnly ==
    log # <<>> /\ Last(log).ev = "response" /\ Last(log).what # "html" =>
        /\ CountOf(normalizeURL(Last(log).url)) = 1
        /\ Len(stack) = Last(log).depth - 1
        /\ status = StatusOf(stack)
        /\ stack # <<>> => Last(stack).pc = "loop"

\* C5: for every base URL that parses, crawlPage never ends in an error,
\* whatever the fetch outcomes and the href values of the fetched pages; it
\* ends in an error only for a base URL that does not parse, and otherwise
\* ends by returning the map once no call is suspended.
C5_NeverRaises ==
    /\ status = "error" <=> (log # <<>> /\ ~NewURL(baseURL).ok)
    /\ status = "done" <=> (log # <<>> /\ stack = <<>> /\ NewURL(baseURL).ok)

\* The crawl of https://H.CO has returned after its page gave an
\* unparseable href and a link to http://h.co/p/, and after the fetch of
\* that link raised a network error.
C5_Witness ==
    /\ status = "done"
    /\ baseURL = MkURL("https", "H.CO", "", <<>>, "", "")
    /\ \E i \in 1..Len(log) :
          /\ log[i].ev = "response"
          /\ \E n \in 1..Len(log[i].html) : log[i].html[n] = A(InvalidURL)
          /\ \E n \in 1..Len(log[i].html) :
                log[i].html[n] = A(MkURL("http", "h.co", "", <<"/", "p", "/">>, "", ""))
    /\ \E i \in 1..Len(log) :
          /\ log[i].ev = "response"
          /\ log[i].what = "networkError"

\* C6: the number of fetches and the recursion depth are bounded by the
\* number of distinct in-scope normalized URLs.
C6_FetchesAndDepthBounded ==
    /\ Len(Fetches(log)) <= Cardinality(KeysMet)
    /\ Len(stack) <= Cardinality(KeysMet)


Max(S) == CHOOSE i \in S : \A j \in S : j <= i

\* The index in the history of the response to the fetch of the call that
\* is suspended at depth d (0 when it has none): the last response at that
\* depth.
ResponseOf(d) ==
    LET S == {i \in 1..Len(log) : log[i].ev = "response" /\ log[i].depth = d}
    IN  IF S = {} THEN 0 ELSE Max(S)

\* C13: whenever the fetch for a URL is issued the map already holds
\* count 1 under its key, and a link back to a URL met while that URL's
\* page is being processed (its call is suspended in the loop) is a
\* revisit that does not reach the fetch.
C13_MarkedBeforeFetch ==
    /\ \A d \in 1..Len(stack) :
          stack[d].pc = "getHTML" => CountOf(normalizeURL(stack[d].url)) = 1
    /\ \A d \in 1..Len(stack) : \A j \in 1..Len(log) :
          (/\ stack[d].pc = "loop"
           /\ j > ResponseOf(d)
           /\ log[j].depth > d
           /\ log[j].ev \in {"call", "fetch"}
           /\ InScope(log[j].url)
           /\ normalizeURL(log[j].url) = normalizeURL(stack[d].url))
          => log[j].ev = "call" /\ log[j].what = "revisit"

\* The URLs of the crawlPage calls made so far by the loop of the call
\* suspended at depth d, in the order they were made.
CallsOf(d) ==
    LET calls == SelectSeq(SubSeq(log, ResponseOf(d) + 1, Len(log)),
                           LAMBDA e : e.ev = "call" /\ e.depth = d + 1)
    IN  [k \in 1..Len(calls) |-> calls[k].url]

\* C14: the crawl is sequential and depth-first in document order: at most
\* one fetch is in flight, and it is the innermost call's; a fetch follows
\* at once the first visit it belongs to; a call begins only when every
\* earlier call at its depth or deeper has had its response and has left
\* its loop; and the calls made by a page's loop are its links in document
\* order, so that the fetched URLs come in pre-order of the crawl tree.
C14_SequentialPreOrder ==
    /\ \A d \in 1..Len(stack) : stack[d].pc = "getHTML" => d = Len(stack)
    /\ Len(Fetches(log)) - Count(log, LAMBDA e : e.ev = "response")
          = Cardinality({d \in 1..Len(stack) : stack[d].pc = "getHTML"})
    /\ \A j \in 1..Len(log) :
          log[j].ev = "fetch" =>
              /\ j > 1
              /\ log[j - 1] = Event("call", log[j].url, "firstVisit", <<>>,
                                    log[j].depth)
    /\ \A j \in 1..Len(log) : \A k \in 1..(j - 1) :
          log[j].ev = "call" /\ log[k].depth >= log[j].depth =>
              /\ log[k].ev = "fetch" =>
                    \E m \in (k + 1)..(j - 1) :
                        /\ log[m].ev = "response"
                        /\ log[m].depth = log[k].depth
                        /\ log[m].url = log[k].url
              /\ log[k].ev = "response" /\ log[k].html # <<>> =>
                    \E m \in (k + 1)..(j - 1) :
                        /\ log[m].ev = "return"
                        /\ log[m].depth = log[k].depth
    /\ \A d \in 1..Len(stack) :
          stack[d].pc = "loop" =>
              CallsOf(d) = SubSeq(stack[d].nextURLs, 1, stack[d].i - 1)

\* The page of https://H.CO links to http://h.co/p/ and to ?x: the first
\* link has been fetched and its page, with a link of its own, has been
\* processed to the end before the second link is visited.
C14_Witness ==
    /\ Len(stack) = 1
    /\ stack[1].pc = "loop"
    /\ stack[1].i = 3
    /\ stack[1].nextURLs[1] # stack[1].nextURLs[2]
    /\ \E k, m, n \in 1..Len(log) :
          /\ k < m /\ m < n /\ n < Len(log)
          /\ log[k].ev = "fetch" /\ log[k].depth = 2
          /\ log[m].ev = "call" /\ log[m].depth = 3
          /\ log[n].ev = "return" /\ log[n].depth = 2
    /\ Last(log).ev = "call" /\ Last(log).depth = 2
    /\ Last(log).url = stack[1].nextURLs[2]

\* The resolutions against the base URL of the href values of the a
\* elements of a page, in document order, the values that do not resolve
\* and the missing or empty ones left out.
LinksAgainstBase(doc) ==
    LET idx == SelectSeq([i \in 1..Len(doc) |-> i],
                         LAMBDA i : /\ doc[i].tag = "a"
                                    /\ doc[i].attr # <<>>
                                    /\ doc[i].attr[1] # EmptyString
                                    /\ Resolves(doc[i].attr[1], baseURL))
    IN  [k \in 1..Len(idx) |-> Resolution(doc[idx[k]].attr[1], baseURL)]

\* The index in the history of the call that has just been made, 0 when the
\* last step was not a call: a first visit adds its fetch after the call.
LastCall ==
    IF log = <<>> THEN 0
    ELSE IF Last(log).ev = "call" THEN Len(log)
    ELSE IF Last(log).ev = "fetch" THEN Len(log) - 1
    ELSE 0

\* C15: the links of every fetched page, not only of the base page, are
\* resolved against the base URL of the crawl and not against the URL of
\* the page they are on: the URLs a page's loop visits are the resolutions
\* of its href values against baseURL, and a call that has just been made
\* below the base call is on such a resolution of a link of the page last
\* fetched one level up.
C15_LinksResolvedAgainstBase ==
    /\ \A d \in 1..Len(stack) :
          stack[d].pc = "loop" =>
              stack[d].nextURLs = LinksAgainstBase(log[ResponseOf(d)].html)
    /\ LET j == LastCall
       IN  j > 0 /\ log[j].depth > 1 =>
              LET before == {r \in 1..(j - 1) : /\ log[r].ev = "response"
                                                /\ log[r].depth = log[j].depth - 1}
                  links == LinksAgainstBase(log[Max(before)].html)
              IN  /\ before # {}
                  /\ \E n \in 1..Len(links) : links[n] = log[j].url

\* The page fetched from http://h.co/p/ holds the link ?x: the call made
\* for it is on https://h.co/?x, the resolution against the base URL
\* https://H.CO, and not on http://h.co/p/?x.
C15_Witness ==
    /\ baseURL = MkURL("https", "H.CO", "", <<>>, "", "")
    /\ Len(stack) = 2
    /\ stack[2].pc = "loop"
    /\ stack[2].url = MkURL("http", "h.co", "", <<"/", "p", "/">>, "", "")
    /\ log[ResponseOf(2)].html = <<A(MkRef(<<>>, "x", ""))>>
    /\ Last(log).ev = "call" /\ Last(log).depth = 3
    /\ Last(log).url = MkURL("https", "h.co", "", <<"/">>, "x", "")
    /\ Last(log).url # Resolution(MkRef(<<>>, "x", ""), stack[2].url)

\* C16: a crawlPage call on a URL that is in scope and whose key the map
\* holds with a count above 0 adds exactly 1 to that count, leaves every
\* other entry as it was, adds no key, issues no fetch and makes no
\* recursive call.
C16_RevisitOnlyCounts ==
    [][LET n == Len(log)
       IN  (/\ Len(log') > n
            /\ log'[n + 1].ev = "call"
            /\ InScope(log'[n + 1].url)
            /\ CountOf(normalizeURL(log'[n + 1].url)) > 0)
           => /\ log' = Append(log, Event("call", log'[n + 1].url, "revisit",
                                          <<>>, log'[n + 1].depth))
              /\ pages' = [pages EXCEPT ![normalizeURL(log'[n + 1].url)] = @ + 1]
              /\ Len(stack') <= Len(stack)
              /\ \A d \in 1..Len(stack') : stack'[d].pc = "loop"]_vars

\* The page of https://H.CO links to itself (?x): the call for the link has
\* returned with the count of the key h.co raised from 1 to 2, one fetch
\* having been issued in all.
C16_Witness ==
    /\ log # <<>>
    /\ Last(log).ev = "call" /\ Last(log).what = "revisit"
    /\ Last(log).url = MkURL("https", "h.co", "", <<"/">>, "x", "")
    /\ pages = [k \in {<<"h.co">>} |-> 2]
    /\ Len(Fetches(log)) = 1

\* The in-scope links found on the pages fetched so far: for every response
\* that gave a page, the resolved links of the page that are on the base
\* hostname, with the index of the response and the position of the link
\* (one element per occurrence).
LinkOccurrences ==
    UNION {{<<r, n>> : n \in {m \in 1..Len(LinksAgainstBase(log[r].html)) :
                                InScope(LinksAgainstBase(log[r].html)[m])}} :
           r \in {i \in 1..Len(log) : log[i].ev = "response"}}

\* The URL of a link occurrence.
LinkAt(o) == LinksAgainstBase(log[o[1]].html)[o[2]]

RECURSIVE SumOver(_, _)
SumOver(f, S) ==
    IF S = {}
    THEN 0
    ELSE LET k == CHOOSE x \in S : TRUE
         IN  f[k] + SumOver(f, S \ {k})

\* C17: when the crawl returns, the keys of the map are the key of the base
\* URL and the keys of every in-scope link found on a fetched page, none
\* missing and none other.
C17_ResultIsClosure ==
    status = "done" =>
        DOMAIN pages = {normalizeURL(baseURL)}
                       \cup {normalizeURL(LinkAt(o)) : o \in LinkOccurrences}

\* C18: when the crawl returns, every count is at least 1 and the counts
\* add up to 1 plus the number of in-scope link occurrences on the fetched
\* pages.
C18_CountsConserved ==
    status = "done" =>
        /\ \A key \in DOMAIN pages : pages[key] >= 1
        /\ SumOver(pages, DOMAIN pages) = 1 + Cardinality(LinkOccurrences)

\* C19: the map the crawl returns holds the key of the base URL with a
\* count of at least 1, and when the fetch of the base page fails it is
\* exactly that key with count 1, after exactly one fetch.
C19_BaseRecorded ==
    status = "done" =>
        /\ CountOf(normalizeURL(baseURL)) >= 1
        /\ (\E i \in 1..Len(log) :
               /\ log[i].ev = "response"
               /\ log[i].depth = 1
               /\ log[i].what # "html")
           => /\ pages = [k \in {normalizeURL(baseURL)} |-> 1]
              /\ Len(Fetches(log)) = 1

(***************************************************************************)
(* Claims about extractPageData, under SpecExtract                         *)
(***************************************************************************)
IsSequence(x) == DOMAIN x = 1..Len(x)

\* C11: extractPageData always returns a complete record: url is pageURL
\* as given (not normalized), h1 is the trimmed text of the first h1, and
\* h1, first_paragraph, outgoing_links and image_urls are present for every
\* input, empty when the element is missing; when the title and the first
\* paragraph cannot be computed they are empty and the record is still
\* complete.
C11_CompleteRecord ==
    ret # <<>> =>
        LET html == arg[1]
            pageURL == arg[2]
            doc == html.doc
            r == ret[1]
        IN  /\ DOMAIN r = {"url", "h1", "first_paragraph", "outgoing_links",
                           "image_urls"}
            /\ r.url = pageURL
            /\ \A f \in {"h1", "first_paragraph", "outgoing_links", "image_urls"} :
                  IsSequence(r[f])
            /\ html.throws =>
                  /\ r.h1 = <<>> /\ r.first_paragraph = <<>>
                  /\ r.outgoing_links = <<>> /\ r.image_urls = <<>>
            /\ ~html.throws =>
                  /\ IF Elems(doc, "h1") = {}
                     THEN r.h1 = <<>>
                     ELSE IsTrimOf(r.h1, doc[Min(Elems(doc, "h1"))].text)
                  /\ r.first_paragraph = getFirstParagraphFromHTML(doc)
                  /\ Elems(doc, "p") = {} => r.first_paragraph = <<>>
                  /\ r.outgoing_links = getURLsFromHTML(doc, pageURL)
                  /\ Elems(doc, "a") = {} => r.outgoing_links = <<>>
                  /\ r.image_urls = getImagesFromHTML(doc, pageURL)
                  /\ Elems(doc, "img") = {} => r.image_urls = <<>>

\* The page at "https://H.CO/p/" has two h1 elements, the first one with
\* surrounding spaces, and a link, no paragraph and no image: the record
\* carries the URL as given, the trimmed first title and empty fields.
C11_Witness ==
    /\ ret # <<>>
    /\ arg[2] = MkURL("https", "H.CO", "", <<"/", "p", "/">>, "", "")
    /\ arg[1] = HTML(FALSE, <<Node("h1", 0, <<>>, <<" ", "u", " ", "u", " ">>),
                              Node("h1", 0, <<>>, <<"t">>),
                              A(MkRef(<<"/", "p">>, "", ""))>>)
    /\ ret[1].url # URLToString(NewURL(arg[2]))
    /\ ret[1].h1 = <<"u", " ", "u">>
    /\ ret[1].first_paragraph = <<>>
    /\ ret[1].image_urls = <<>>
    /\ Len(ret[1].outgoing_links) = 1


(***************************************************************************)
(* Claims about getHTML, under SpecGetHTML                                 *)
(***************************************************************************)
\* The content-type header is present and names an HTML media type.
IndicatesHTML(res) ==
    res.contentType # <<>> /\ IncludesTextHTML(res.contentType[1])

\* C12: getHTML yields the body text only when the status is below 400 and
\* the content-type header is present and indicates HTML; a status of 400
\* or more, or a missing or non-HTML content type, yields no page without
\* raising and without reading the body, the status being checked before
\* the content type; a network failure is raised as an error.
C12_FetcherOutcomes ==
    ret # <<>> =>
        LET res == arg
            got == ret[1]
        IN  /\ got.result # <<>> =>
                  /\ ~res.rejected /\ res.status < 400 /\ IndicatesHTML(res)
                  /\ got.result = <<res.body>>
            /\ (~res.rejected /\ (res.status >= 400 \/ ~IndicatesHTML(res))) =>
                  got.result = <<>> /\ ~got.threw /\ ~got.read
            /\ (~res.rejected /\ res.status >= 400) =>
                  got.logged = <<"httpError">>
            /\ (~res.rejected /\ res.status < 400 /\ ~IndicatesHTML(res)) =>
                  got.logged = <<"notHTML">>
            /\ res.rejected => got.threw /\ got.result = <<>> /\ ~got.read

\* A 404 response of type application/json: no page, reported as an HTTP
\* error, the content type not being looked at.
C12_Witness ==
    /\ ret # <<>>
    /\ ~arg.rejected /\ arg.status = 404
    /\ arg.contentType = <<"application/json">>
    /\ arg.body # <<>>
    /\ ret[1].result = <<>> /\ ~ret[1].threw
    /\ ret[1].logged = <<"httpError">>

====
